---- MODULE Spec2Model ----
(***************************************************************************)
(* Model of the dirge path wrappers (NormPathBuf, RelPathBuf, AbsPathBuf)  *)
(* on a Unix host.  A path is the string the PathBuf stores, written as a  *)
(* sequence of one-character strings, so that push, pop, parent and        *)
(* components work on the text as the standard library does.               *)
(***************************************************************************)
EXTENDS Integers, Sequences, FiniteSets, TLC

\* Largest number of segments of an input path.
MaxSegs == 4

Sep == "/"
Dot == <<".">>
DotDot == <<".", ".">>

\* The byte 0xFF, which no UTF-8 text contains, as one character of a path.
BadByte == "0xFF"

\* Regular names used in input paths: a plain name, a dot-file name and a
\* name that is not valid UTF-8.
Names == {<<"a">>, <<".", "b">>, <<BadByte>>}
Segments == Names \cup {Dot, DotDot}

SeqsUpTo(S, n) == UNION {[1..k -> S] : k \in 0..n}

\* An input path as written by a caller: optional root marker, segments,
\* optional trailing separator.
Sources ==
    {r \in [root : BOOLEAN, segs : SeqsUpTo(Segments, MaxSegs), trail : BOOLEAN] :
        r.trail => r.segs # <<>>}

RECURSIVE Join(_)
Join(segs) ==
    IF segs = <<>> THEN <<>>
    ELSE IF Len(segs) = 1 THEN segs[1]
    ELSE segs[1] \o <<Sep>> \o Join(Tail(segs))

\* The text of an input path.
Render(r) ==
    (IF r.root THEN <<Sep>> ELSE <<>>) \o Join(r.segs) \o (IF r.trail THEN <<Sep>> ELSE <<>>)

\* Absolute paths used as the base of a join and as the sandbox root.
Bases ==
    { <<"/">>, <<"/", "w">>, <<"/", "w", "/">>, <<"/", "w", "/", "x">>,
      <<"/", "w", "/", ".", ".">> }

\* Outcomes of the current-working-directory lookup.
CwdResults ==
    { [ok |-> TRUE, path |-> <<"/">>],
      [ok |-> TRUE, path |-> <<"/", "w">>],
      [ok |-> FALSE, path |-> <<>>] }

(***************************************************************************)
(* std::path as used by the crate (Unix rules)                             *)
(***************************************************************************)

RootDir == [kind |-> "RootDir", name |-> <<Sep>>]
CurDir == [kind |-> "CurDir", name |-> Dot]
ParentDir == [kind |-> "ParentDir", name |-> DotDot]
Normal(n) == [kind |-> "Normal", name |-> n]

\* Component::as_os_str
AsOsStr(c) == c.name

\* Path::has_root / Path::is_absolute / Path::is_relative
HasRoot(s) == Len(s) > 0 /\ s[1] = Sep
IsAbsolute(s) == HasRoot(s)
IsRelative(s) == ~IsAbsolute(s)

\* Components::include_cur_dir: a leading "." that is a whole segment.
IncludeCurDir(s) ==
    /\ ~HasRoot(s)
    /\ Len(s) >= 1
    /\ s[1] = "."
    /\ (Len(s) = 1 \/ s[2] = Sep)

\* Components::len_before_body
LenBeforeBody(s) ==
    (IF HasRoot(s) THEN 1 ELSE 0) + (IF IncludeCurDir(s) THEN 1 ELSE 0)

\* Mutant of ParseSingleComponent: every segment that starts with a dot is
\* taken for the current-directory marker.
ParseSingleComponentDotPrefix(c) ==
    IF c = <<>> \/ c[1] = "." THEN <<>> ELSE <<[kind |-> "Normal", name |-> c]>>

\* Components::parse_single_component: None is <<>>, Some(c) is <<c>>.
ParseSingleComponent(c) ==
    IF c = <<>> \/ c = Dot THEN <<>>
    ELSE IF c = DotDot THEN <<ParentDir>>
    ELSE <<Normal(c)>>

FirstSep(s) ==
    IF \E i \in 1..Len(s) : s[i] = Sep
    THEN CHOOSE i \in 1..Len(s) : s[i] = Sep /\ \A j \in 1..(i - 1) : s[j] # Sep
    ELSE 0

LastSep(s, start) ==
    IF \E i \in (start + 1)..Len(s) : s[i] = Sep
    THEN CHOOSE i \in (start + 1)..Len(s) :
            s[i] = Sep /\ \A j \in (i + 1)..Len(s) : s[j] # Sep
    ELSE 0

\* Components::parse_next_component on the body text s.
ParseNextComponent(s) ==
    LET i == FirstSep(s)
        comp == IF i = 0 THEN s ELSE SubSeq(s, 1, i - 1)
        extra == IF i = 0 THEN 0 ELSE 1
    IN [size |-> Len(comp) + extra, comp |-> ParseSingleComponent(comp)]

\* Components::parse_next_component_back on s whose body starts after start.
ParseNextComponentBack(s, start) ==
    LET i == LastSep(s, start)
        comp == IF i = 0 THEN SubSeq(s, start + 1, Len(s)) ELSE SubSeq(s, i + 1, Len(s))
        extra == IF i = 0 THEN 0 ELSE 1
    IN [size |-> Len(comp) + extra, comp |-> ParseSingleComponent(comp)]

RECURSIVE BodyComponents(_)
BodyComponents(s) ==
    IF s = <<>> THEN <<>>
    ELSE LET r == ParseNextComponent(s)
         IN r.comp \o BodyComponents(SubSeq(s, r.size + 1, Len(s)))

\* Path::components, collected front to back.
Components(s) ==
    IF HasRoot(s) THEN <<RootDir>> \o BodyComponents(Tail(s))
    ELSE IF IncludeCurDir(s) THEN <<CurDir>> \o BodyComponents(Tail(s))
    ELSE BodyComponents(s)

\* Components::trim_right: drop trailing separators and "." segments.
RECURSIVE TrimRight(_, _)
TrimRight(s, start) ==
    IF Len(s) > start
    THEN LET r == ParseNextComponentBack(s, start)
         IN IF r.comp # <<>> THEN s
            ELSE TrimRight(SubSeq(s, 1, Len(s) - r.size), start)
    ELSE s

NoParent == [some |-> FALSE, path |-> <<>>]

\* Mutant of Parent: the root has the empty path as its parent.
ParentPopsRoot(s) ==
    LET start == LenBeforeBody(s)
        t == TrimRight(s, start)
    IN IF Len(t) > start
       THEN LET r == ParseNextComponentBack(t, start)
            IN [some |-> TRUE, path |-> TrimRight(SubSeq(t, 1, Len(t) - r.size), start)]
       ELSE IF HasRoot(s) \/ IncludeCurDir(s) THEN [some |-> TRUE, path |-> <<>>]
       ELSE NoParent

\* Mutant of Parent: a path that ends in ".." has no parent.
ParentStopsAtParentDir(s) ==
    LET start == LenBeforeBody(s)
        t == TrimRight(s, start)
    IN IF Len(t) > start
       THEN LET r == ParseNextComponentBack(t, start)
            IN IF r.comp = <<ParentDir>> THEN NoParent
               ELSE [some |-> TRUE,
                     path |-> TrimRight(SubSeq(t, 1, Len(t) - r.size), start)]
       ELSE IF HasRoot(s) THEN NoParent
       ELSE IF IncludeCurDir(s) THEN [some |-> TRUE, path |-> <<>>]
       ELSE NoParent

\* Path::parent: the path without its last component, None when the last
\* component is the root or there is no component.
Parent(s) ==
    LET start == LenBeforeBody(s)
        t == TrimRight(s, start)
    IN IF Len(t) > start
       THEN LET r == ParseNextComponentBack(t, start)
            IN [some |-> TRUE, path |-> TrimRight(SubSeq(t, 1, Len(t) - r.size), start)]
       ELSE IF HasRoot(s) THEN NoParent
       ELSE IF IncludeCurDir(s) THEN [some |-> TRUE, path |-> <<>>]
       ELSE NoParent

\* PathBuf::pop: truncate to the parent, false when there is none.
Pop(s) ==
    LET p == Parent(s)
    IN IF p.some THEN [ok |-> TRUE, path |-> SubSeq(s, 1, Len(p.path))]
       ELSE [ok |-> FALSE, path |-> s]

\* Mutant of Push: the separator is added even to an empty buffer.
PushAlwaysSep(s, p) ==
    IF IsAbsolute(p) THEN p ELSE s \o <<Sep>> \o p

\* PathBuf::push: an absolute operand replaces the buffer, otherwise it is
\* appended after a separator when the buffer does not end with one.
Push(s, p) ==
    IF IsAbsolute(p) THEN p
    ELSE IF s # <<>> /\ s[Len(s)] # Sep THEN s \o <<Sep>> \o p
    ELSE s \o p

\* Path::to_path_buf: an owned copy of the path text.
ToPathBuf(s) == [i \in 1..Len(s) |-> s[i]]

\* Mutant of PathJoin: the operand replaces the last component (as
\* with_file_name does).
PathJoinSibling(b, p) ==
    [i \in 1..Len(Push(Pop(b).path, p)) |-> Push(Pop(b).path, p)[i]]

\* Path::join: a copy of the path with the operand pushed.
PathJoin(b, p) == Push(ToPathBuf(b), p)

\* Path::starts_with: the components of b are a prefix of those of a.
PathStartsWith(a, b) ==
    LET ca == Components(a)
        cb == Components(b)
    IN Len(cb) <= Len(ca) /\ SubSeq(ca, 1, Len(cb)) = cb

RECURSIVE Extend(_, _)
\* PathBuf::extend: push every component in order.
Extend(s, cs) ==
    IF cs = <<>> THEN s ELSE Extend(Push(s, AsOsStr(Head(cs))), Tail(cs))

\* PartialEq of Path (derived for the wrappers): component-wise equality.
PathEq(a, b) == Components(a) = Components(b)

Ok(p) == [ok |-> TRUE, path |-> p, err |-> "none"]
Err(e) == [ok |-> FALSE, path |-> <<>>, err |-> e]
NoResult == [ok |-> FALSE, path |-> <<>>, err |-> "pending"]
NoWire == [ok |-> FALSE, path |-> <<>>, err |-> "unserialized"]
NoLookup == [ok |-> FALSE, path |-> <<>>]

(***************************************************************************)
(* norm.rs                                                                 *)
(***************************************************************************)

\* Mutant of ArmCurDir: the "." component is kept.
ArmCurDirKeep(normalized) ==
    IF normalized # <<>> /\ normalized[Len(normalized)] # Sep
    THEN normalized \o <<Sep>> \o <<".">> ELSE normalized \o <<".">>

\* normalize_path, arm Component::CurDir: skip.
ArmCurDir(normalized) == normalized

\* Mutant of ArmParentDir: ".." is always kept, nothing is popped.
ArmParentDirKeep(normalized) ==
    IF normalized # <<>> /\ normalized[Len(normalized)] # Sep
    THEN normalized \o <<Sep>> \o <<".", ".">> ELSE normalized \o <<".", ".">>

\* normalize_path, arm Component::ParentDir: pop, keep ".." when pop fails.
ArmParentDir(normalized) ==
    LET r == Pop(normalized)
    IN IF ~r.ok THEN Push(r.path, DotDot) ELSE r.path

\* normalize_path, default arm: push the component.
ArmOther(normalized, component) == Push(normalized, AsOsStr(component))

\* Mutant of NormalizeTail: the test that the input was non-empty is missing.
NormalizeTailAnyInput(normalized, p) ==
    IF normalized = <<>> THEN <<".">> ELSE normalized

\* normalize_path, after the loop: "." for an emptied non-empty input.
NormalizeTail(normalized, p) ==
    IF normalized = <<>> /\ p # <<>> THEN Push(normalized, Dot) ELSE normalized

\* Mutant of ToNormPathBuf: a result that still starts with ".." is refused.
ToNormPathBufStrict(normalized) ==
    IF Len(normalized) >= 2 /\ normalized[1] = "." /\ normalized[2] = "."
    THEN [ok |-> FALSE, path |-> <<>>, err |-> "InvalidInput"]
    ELSE [ok |-> TRUE, path |-> normalized, err |-> "none"]

\* ToNormPathBuf::to_norm_path_buf wraps the normalized path in Ok.
ToNormPathBuf(normalized) == Ok(normalized)

\* normalize_path, the loop over the components cs.
RECURSIVE NormalizeLoop(_, _)
NormalizeLoop(normalized, cs) ==
    IF cs = <<>> THEN normalized
    ELSE LET c == Head(cs)
             next == IF c.kind = "CurDir" THEN ArmCurDir(normalized)
                     ELSE IF c.kind = "ParentDir" THEN ArmParentDir(normalized)
                     ELSE ArmOther(normalized, c)
         IN NormalizeLoop(next, Tail(cs))

\* normalize_path as one call.
NormalizePath(p) == NormalizeTail(NormalizeLoop(<<>>, Components(p)), p)

\* NormPathBuf::new(p)
NormPathBufNew(p) == ToNormPathBuf(NormalizePath(p))

\* PathBuf::deserialize from a string: the PathBuf holds the string's bytes.
PathBufDeserialize(str) == str

\* Path::to_str: Some only for valid UTF-8.
ValidUtf8(p) == \A i \in 1..Len(p) : p[i] # BadByte

\* Mutant of SerializePathBuf: to_string_lossy instead of to_str.
SerializePathBufLossy(p) ==
    [ok |-> TRUE, path |-> [i \in 1..Len(p) |-> IF p[i] = BadByte THEN "?" ELSE p[i]],
     err |-> "none"]

\* Serialize for the owned buffers: self.0.serialize, the path as a string,
\* an error when the path is not valid UTF-8.
SerializePathBuf(p) ==
    IF ValidUtf8(p) THEN Ok(p) ELSE Err("custom")

\* Mutant of DeserializeNorm: a path that still leaves its base is refused.
DeserializeNormStrict(normalized) ==
    IF Len(normalized) >= 2 /\ normalized[1] = "." /\ normalized[2] = "."
    THEN [ok |-> FALSE, path |-> <<>>, err |-> "custom"]
    ELSE [ok |-> TRUE, path |-> normalized, err |-> "none"]

\* Deserialize for NormPathBuf, after normalize_path: always Ok.
DeserializeNorm(normalized) == Ok(normalized)

(***************************************************************************)
(* rel.rs                                                                  *)
(***************************************************************************)

\* Mutant of ToRelPathBuf: the is_relative test is missing.
ToRelPathBufUnchecked(p) == [ok |-> TRUE, path |-> p, err |-> "none"]

\* ToRelPathBuf::to_rel_path_buf
ToRelPathBuf(p) ==
    IF IsRelative(p) THEN Ok(p) ELSE Err("InvalidInput")

\* Deserialize for RelPathBuf
DeserializeRel(str) ==
    LET path_buf == PathBufDeserialize(str)
    IN IF IsRelative(path_buf) THEN Ok(path_buf) ELSE Err("custom")

(***************************************************************************)
(* abs.rs                                                                  *)
(***************************************************************************)

StartsWith(s, pre) == Len(s) >= Len(pre) /\ SubSeq(s, 1, Len(pre)) = pre

\* Path::strip_prefix(".").unwrap_or(path).components()
StripCurDir(p) ==
    LET cs == Components(p)
    IN IF cs # <<>> /\ Head(cs) = CurDir THEN Tail(cs) ELSE cs

\* Mutant of Absolute: a relative path is not put under the current
\* directory.
AbsoluteNoCwd(p, c) ==
    IF p = <<>> THEN Err("InvalidInput")
    ELSE IF IsRelative(p) /\ ~c.ok THEN Err("CurrentDir")
    ELSE LET joined == Extend(<<>>, StripCurDir(p))
         IN Ok(IF p[Len(p)] = Sep THEN Push(joined, <<>>) ELSE joined)

\* Mutant of Absolute: a failed lookup falls back to the root directory.
AbsoluteCwdFallback(p, c) ==
    IF p = <<>> THEN Err("InvalidInput")
    ELSE LET joined == Extend(IF IsAbsolute(p) \/ ~c.ok THEN <<Sep>> ELSE c.path,
                              StripCurDir(p))
         IN Ok(IF p[Len(p)] = Sep THEN Push(joined, <<>>) ELSE joined)

\* std::path::absolute as called by to_abs_path_buf: c is the outcome of
\* the current-directory lookup, consulted for a relative path only.
Absolute(p, c) ==
    IF p = <<>> THEN Err("InvalidInput")
    ELSE IF IsRelative(p) /\ ~c.ok THEN Err("CurrentDir")
    ELSE LET comps0 == StripCurDir(p)
             twoSlash == StartsWith(p, <<Sep, Sep>>) /\ ~StartsWith(p, <<Sep, Sep, Sep>>)
             base == IF IsAbsolute(p)
                     THEN (IF twoSlash THEN <<Sep, Sep>> ELSE <<>>)
                     ELSE c.path
             rest == IF IsAbsolute(p) /\ twoSlash THEN Tail(comps0) ELSE comps0
             joined == Extend(base, rest)
         IN Ok(IF p[Len(p)] = Sep THEN Push(joined, <<>>) ELSE joined)

\* Mutant of ToAbsPathBuf: the current directory is looked up before the
\* path is examined.
ToAbsPathBufCwdFirst(p, c) ==
    IF ~c.ok THEN [ok |-> FALSE, path |-> <<>>, err |-> "CurrentDir"] ELSE Absolute(p, c)

\* ToAbsPathBuf::to_abs_path_buf
ToAbsPathBuf(p, c) == Absolute(p, c)

\* Mutant of DeserializeAbs: the string is trusted, not validated.
DeserializeAbsTrusting(str) == Ok(str)

\* Deserialize for AbsPathBuf
DeserializeAbs(str) ==
    LET path_buf == PathBufDeserialize(str)
    IN IF IsAbsolute(path_buf) THEN Ok(path_buf) ELSE Err("custom")

\* derive(Clone) on the owned buffers: a copy of the inner PathBuf.
Clone(p) == [i \in 1..Len(p) |-> p[i]]

\* ToOwned for the borrowed views: Path::to_owned of the inner path.
ToOwned(p) == [i \in 1..Len(p) |-> p[i]]

(***************************************************************************)
(* examples/deployment_tool.rs                                             *)
(***************************************************************************)

\* SecurePathProcessor::validate_sandbox_escape
ValidateSandboxEscape(p, sandbox) ==
    LET abs_path == PathJoin(sandbox, p)
    IN IF ~PathStartsWith(abs_path, sandbox) THEN Err("escape") ELSE Ok(<<>>)

(***************************************************************************)
(* State                                                                   *)
(***************************************************************************)

VARIABLES
    src,         \* the caller's input path, by parts
    path,        \* the text handed to the running conversion
    cwd,         \* outcome of the current-directory lookup of the process
    op,          \* "none", "norm", "rel" or "abs"
    via,         \* entry point: "new", "deserialize" or "none"
    pc,          \* "idle", "loop" or "done"
    pass,        \* number of normalizations started on this value
    comps,       \* components normalize_path has not consumed yet
    normalized,  \* the buffer normalize_path builds
    result,      \* the io::Result of the conversion
    cwdAtCall,   \* outcome of the lookup when to_abs_path_buf was called
    base,        \* the absolute operand of a join or sandbox check
    wire         \* the serialized form of the value, once serialized

vars == <<src, path, cwd, op, via, pc, pass, comps, normalized, result,
          cwdAtCall, base, wire>>

Init ==
    /\ src \in Sources
    /\ path = Render(src)
    /\ cwd \in CwdResults
    /\ op = "none"
    /\ via = "none"
    /\ pc = "idle"
    /\ pass = 0
    /\ comps = <<>>
    /\ normalized = <<>>
    /\ result = NoResult
    /\ cwdAtCall = NoLookup
    /\ base = <<>>
    /\ wire = NoWire

\* Entry of normalize_path: empty buffer, iterator over the components.
StartNormalize(p, entry) ==
    /\ op' = "norm"
    /\ via' = entry
    /\ pc' = "loop"
    /\ pass' = pass + 1
    /\ path' = p
    /\ comps' = Components(p)
    /\ normalized' = <<>>
    /\ result' = NoResult
    /\ UNCHANGED <<src, cwd, cwdAtCall, base>>

\* NormPathBuf::new(p) -> to_norm_path_buf -> normalize_path
NormNew ==
    /\ pc = "idle"
    /\ StartNormalize(path, "new")
    /\ UNCHANGED wire

\* Deserialize for NormPathBuf: the string is read and normalized.
NormDeserialize ==
    /\ pc = "idle"
    /\ StartNormalize(PathBufDeserialize(path), "deserialize")
    /\ UNCHANGED wire

\* Loop body of normalize_path on Component::CurDir.
NormCurDir ==
    /\ pc = "loop" /\ comps # <<>>
    /\ Head(comps).kind = "CurDir"
    /\ normalized' = ArmCurDir(normalized)
    /\ comps' = Tail(comps)
    /\ UNCHANGED <<src, path, cwd, op, via, pc, pass, result, cwdAtCall, base, wire>>

\* Loop body of normalize_path on Component::ParentDir.
NormParentDir ==
    /\ pc = "loop" /\ comps # <<>>
    /\ Head(comps).kind = "ParentDir"
    /\ normalized' = ArmParentDir(normalized)
    /\ comps' = Tail(comps)
    /\ UNCHANGED <<src, path, cwd, op, via, pc, pass, result, cwdAtCall, base, wire>>

\* Loop body of normalize_path on any other component.
NormOther ==
    /\ pc = "loop" /\ comps # <<>>
    /\ Head(comps).kind \notin {"CurDir", "ParentDir"}
    /\ normalized' = ArmOther(normalized, Head(comps))
    /\ comps' = Tail(comps)
    /\ UNCHANGED <<src, path, cwd, op, via, pc, pass, result, cwdAtCall, base, wire>>

\* End of normalize_path and return of to_norm_path_buf.
NormFinish ==
    /\ pc = "loop" /\ comps = <<>>
    /\ normalized' = NormalizeTail(normalized, path)
    /\ result' = IF via = "deserialize"
                 THEN DeserializeNorm(normalized')
                 ELSE ToNormPathBuf(normalized')
    /\ pc' = "done"
    /\ UNCHANGED <<src, path, cwd, op, via, pass, comps, cwdAtCall, base, wire>>

\* The caller normalizes the NormPathBuf it got once more.
Renormalize ==
    /\ pc = "done" /\ op = "norm" /\ pass = 1
    /\ result.ok
    /\ StartNormalize(result.path, via)
    /\ UNCHANGED wire

\* RelPathBuf::new(p) -> to_rel_path_buf
RelNew ==
    /\ pc = "idle"
    /\ op' = "rel"
    /\ via' = "new"
    /\ result' = ToRelPathBuf(path)
    /\ pc' = "done"
    /\ UNCHANGED <<src, path, cwd, pass, comps, normalized, cwdAtCall, base, wire>>

\* AbsPathBuf::new(p) -> to_abs_path_buf
AbsNew ==
    /\ pc = "idle"
    /\ op' = "abs"
    /\ via' = "new"
    /\ result' = ToAbsPathBuf(path, cwd)
    /\ cwdAtCall' = cwd
    /\ pc' = "done"
    /\ UNCHANGED <<src, path, cwd, pass, comps, normalized, base, wire>>

\* Deserialize for RelPathBuf on the input string.
RelDeserialize ==
    /\ pc = "idle"
    /\ op' = "derel"
    /\ via' = "deserialize"
    /\ result' = DeserializeRel(path)
    /\ pc' = "done"
    /\ UNCHANGED <<src, path, cwd, pass, comps, normalized, cwdAtCall, base, wire>>

\* Deserialize for AbsPathBuf on the input string.
AbsDeserialize ==
    /\ pc = "idle"
    /\ op' = "deabs"
    /\ via' = "deserialize"
    /\ result' = DeserializeAbs(path)
    /\ pc' = "done"
    /\ UNCHANGED <<src, path, cwd, pass, comps, normalized, cwdAtCall, base, wire>>

\* clone() of an owned buffer obtained from a constructor or deserializer.
CloneBuf ==
    /\ pc = "done" /\ result.ok
    /\ op \in {"norm", "rel", "abs", "derel", "deabs"}
    /\ via \in {"new", "deserialize"}
    /\ via' = "clone"
    /\ result' = Ok(Clone(result.path))
    /\ UNCHANGED <<src, path, cwd, op, pc, pass, comps, normalized, cwdAtCall, base, wire>>

\* to_owned() of the borrowed view of such a buffer.
ToOwnedView ==
    /\ pc = "done" /\ result.ok
    /\ op \in {"norm", "rel", "abs", "derel", "deabs"}
    /\ via \in {"new", "deserialize"}
    /\ via' = "to_owned"
    /\ result' = Ok(ToOwned(result.path))
    /\ UNCHANGED <<src, path, cwd, op, pc, pass, comps, normalized, cwdAtCall, base, wire>>

\* Serialize for an owned buffer obtained from its constructor.
Serialize ==
    /\ pc = "done" /\ result.ok
    /\ op \in {"norm", "rel", "abs"}
    /\ via = "new" /\ pass <= 1
    /\ wire = NoWire
    /\ wire' = SerializePathBuf(result.path)
    /\ pc' = "wire"
    /\ UNCHANGED <<src, path, cwd, op, via, pass, comps, normalized, result,
                   cwdAtCall, base>>

\* Deserialize for NormPathBuf on the serialized string.
NormDeserializeWire ==
    /\ pc = "wire" /\ wire.ok /\ op = "norm"
    /\ StartNormalize(PathBufDeserialize(wire.path), "deserialize")
    /\ UNCHANGED wire

\* Deserialize for RelPathBuf on the serialized string.
RelDeserializeWire ==
    /\ pc = "wire" /\ wire.ok /\ op = "rel"
    /\ op' = "derel"
    /\ via' = "deserialize"
    /\ path' = wire.path
    /\ result' = DeserializeRel(wire.path)
    /\ pc' = "done"
    /\ UNCHANGED <<src, cwd, pass, comps, normalized, cwdAtCall, base, wire>>

\* Deserialize for AbsPathBuf on the serialized string.
AbsDeserializeWire ==
    /\ pc = "wire" /\ wire.ok /\ op = "abs"
    /\ op' = "deabs"
    /\ via' = "deserialize"
    /\ path' = wire.path
    /\ result' = DeserializeAbs(wire.path)
    /\ pc' = "done"
    /\ UNCHANGED <<src, cwd, pass, comps, normalized, cwdAtCall, base, wire>>

\* base_dir.join(source) of DeploymentManifest::deploy: a RelPathBuf joined
\* onto an AbsPath.
JoinOntoAbs ==
    /\ pc = "done" /\ result.ok
    /\ op \in {"rel", "derel"}
    /\ \E b \in Bases :
          /\ base' = b
          /\ result' = Ok(PathJoin(b, result.path))
    /\ op' = "join"
    /\ UNCHANGED <<src, path, cwd, via, pc, pass, comps, normalized, cwdAtCall, wire>>

\* validate_sandbox_escape on the result of process_user_path.
SandboxCheck ==
    /\ pc = "done" /\ result.ok
    /\ op = "norm" /\ via = "new" /\ pass = 1
    /\ \E b \in Bases :
          /\ base' = b
          /\ result' = ValidateSandboxEscape(result.path, b)
    /\ op' = "sandbox"
    /\ UNCHANGED <<src, path, cwd, via, pc, pass, comps, normalized, cwdAtCall, wire>>

\* The process changes its current directory between calls.
Chdir ==
    /\ pc # "loop"
    /\ \E c \in CwdResults \ {cwd} : cwd' = c
    /\ UNCHANGED <<src, path, op, via, pc, pass, comps, normalized, result,
                   cwdAtCall, base, wire>>

Next ==
    \/ NormNew
    \/ NormDeserialize
    \/ NormCurDir
    \/ NormParentDir
    \/ NormOther
    \/ NormFinish
    \/ Renormalize
    \/ RelNew
    \/ AbsNew
    \/ RelDeserialize
    \/ AbsDeserialize
    \/ Serialize
    \/ NormDeserializeWire
    \/ RelDeserializeWire
    \/ AbsDeserializeWire
    \/ JoinOntoAbs
    \/ SandboxCheck
    \/ CloneBuf
    \/ ToOwnedView
    \/ Chdir

Spec == Init /\ [][Next]_vars

Done(o) == pc = "done" /\ op = o

(***************************************************************************)
(* Vocabulary of the properties                                            *)
(***************************************************************************)

\* The text s cut at every separator, empty pieces included.
RECURSIVE RawSegments(_)
RawSegments(s) ==
    LET i == FirstSep(s)
    IN IF i = 0 THEN <<s>>
       ELSE <<SubSeq(s, 1, i - 1)>> \o RawSegments(SubSeq(s, i + 1, Len(s)))

IsRegularName(seg) == seg \notin {<<>>, Dot, DotDot}

\* The input is k >= 1 ".." segments followed by regular names only.
OnlyParentsThenNames(segs) ==
    \E k \in 1..Len(segs) :
        /\ \A i \in 1..k : segs[i] = DotDot
        /\ \A i \in (k + 1)..Len(segs) : segs[i] \in Names

\* Every ".." of segs meets an uncancelled regular name before it.
RECURSIVE AllCancel(_, _)
AllCancel(depth, segs) ==
    IF segs = <<>> THEN TRUE
    ELSE IF Head(segs) = Dot THEN AllCancel(depth, Tail(segs))
    ELSE IF Head(segs) = DotDot THEN depth > 0 /\ AllCancel(depth - 1, Tail(segs))
    ELSE AllCancel(depth + 1, Tail(segs))

\* Reference lexical resolution: "." dropped, ".." removes the nearest
\* uncancelled name before it, names kept in order.
RECURSIVE RefResolve(_, _)
RefResolve(stack, segs) ==
    IF segs = <<>> THEN stack
    ELSE IF Head(segs) = Dot THEN RefResolve(stack, Tail(segs))
    ELSE IF Head(segs) = DotDot
         THEN RefResolve(SubSeq(stack, 1, Len(stack) - 1), Tail(segs))
    ELSE RefResolve(Append(stack, Head(segs)), Tail(segs))

\* Text of the reference resolution of the input; "." stands for a relative
\* input whose segments all cancelled.
RefText ==
    LET st == RefResolve(<<>>, src.segs)
    IN IF st = <<>> /\ ~src.root /\ src.segs # <<>> THEN Dot
       ELSE Render([root |-> src.root, segs |-> st, trail |-> FALSE])

HasSeg(segs, x) == \E i \in 1..Len(segs) : segs[i] = x

\* ".." segments of s stand only before every regular name of s.
ParentsOnlyLeading(s) ==
    LET raw == RawSegments(s)
    IN \A i \in 1..Len(raw) :
          raw[i] = DotDot => \A j \in 1..(i - 1) : ~IsRegularName(raw[j])

(***************************************************************************)
(* Properties                                                              *)
(***************************************************************************)

\* C1: normalization is idempotent: normalizing the result of normalize_path
\* again returns that same path text, for every input path.
C1_Idempotent ==
    (Done("norm") /\ pass = 2) => (result.ok /\ result.path = path)

\* C1 witness: a second pass has finished on a path the first pass rewrote.
C1_Witness ==
    /\ Done("norm") /\ pass = 2
    /\ path # Render(src)
    /\ HasSeg(src.segs, DotDot)
    /\ result.path = path

\* C2: a relative path made of k >= 1 leading ".." segments followed only by
\* regular names is returned unchanged by normalize.
C2_LeadingParentsPreserved ==
    (Done("norm") /\ pass = 1 /\ ~src.root /\ ~src.trail /\ OnlyParentsThenNames(src.segs))
        => result.path = Render(src)

\* C3: for an input that starts with the root marker the result of normalize
\* contains no ".." segment.
C3_RootAnchoredNoParent ==
    (Done("norm") /\ pass = 1 /\ src.root) => ~HasSeg(RawSegments(result.path), DotDot)

C5_NoParentAfterName ==
    (Done("norm") /\ result.ok) =>
        LET raw == RawSegments(result.path)
        IN \A i \in 1..Len(raw) : \A j \in 1..Len(raw) :
              (j < i /\ raw[i] = DotDot) => ~IsRegularName(raw[j])

\* C5 witness: the input had a name before a "..", and the result still has
\* a ".." and a name.
C5_Witness ==
    /\ Done("norm") /\ pass = 1
    /\ \E i \in 1..Len(src.segs) : \E j \in 1..Len(src.segs) :
          i < j /\ src.segs[i] \in Names /\ src.segs[j] = DotDot
    /\ HasSeg(RawSegments(result.path), DotDot)
    /\ \E k \in 1..Len(RawSegments(result.path)) : IsRegularName(RawSegments(result.path)[k])

\* Some step of normalize_path is possible: the loop has an arm for the
\* next component, or the loop is over and the function returns.
PassCanStep ==
    \/ comps = <<>>
    \/ Head(comps).kind = "CurDir"
    \/ Head(comps).kind = "ParentDir"
    \/ Head(comps).kind \notin {"CurDir", "ParentDir"}

\* C6: normalize is total: while the pass runs a step is always possible,
\* every step consumes one of the finitely many components, and when none is
\* left the call returns Ok, never an error.
C6_Total ==
    [][ /\ pc' = "loop" => PassCanStep'
        /\ pc = "loop" =>
              IF comps # <<>>
              THEN pc' = "loop" /\ Len(comps') = Len(comps) - 1
              ELSE Done("norm")' /\ result'.ok
      ]_vars

\* C6 witness: Ok returned for a root-anchored input made of "." and ".."
\* segments only.
C6_Witness ==
    /\ Done("norm") /\ pass = 1 /\ result.ok
    /\ src.root /\ src.segs # <<>>
    /\ \A i \in 1..Len(src.segs) : src.segs[i] \in {Dot, DotDot}

C9_RelativeIffNotAbsolute ==
    Done("rel") =>
        /\ result.ok <=> ~src.root
        /\ result.ok => (result.path = Render(src) /\ IsRelative(result.path))
        /\ ~result.ok => (result.path = <<>> /\ result.err = "InvalidInput")

\* C9 witness: a relative input with "." and ".." accepted as it is.
C9_Witness ==
    /\ Done("rel") /\ result.ok
    /\ HasSeg(src.segs, Dot) /\ HasSeg(src.segs, DotDot)
    /\ result.path = Render(src)

\* C10: for an absolute input make_absolute succeeds with a path equal to
\* the input, whatever the current-directory lookup yields, failure included.
C10_AbsoluteInputUnchanged ==
    (Done("abs") /\ src.root) =>
        /\ result.ok
        /\ PathEq(result.path, Render(src))
        /\ \A c \in CwdResults : ToAbsPathBuf(path, c) = result

\* C10 witness: an absolute input accepted while the lookup fails.
C10_Witness ==
    /\ Done("abs") /\ src.root /\ ~cwd.ok
    /\ src.segs # <<>>
    /\ result.ok

\* C11: every AbsPathBuf obtained from new, to_abs_path_buf, deserialization,
\* clone or to_owned holds an absolute path; for a relative input the
\* constructor's result is the input appended to the current directory as it
\* was when the call was made.
C11_AlwaysAbsolute ==
    ((Done("abs") \/ Done("deabs")) /\ result.ok) =>
        /\ IsAbsolute(result.path)
        /\ (op = "abs" /\ ~src.root) =>
              /\ cwdAtCall.ok
              /\ PathEq(result.path, cwdAtCall.path \o <<Sep>> \o Render(src))

\* C11 witness: the to_owned copy of an AbsPathBuf built from a relative
\* input with "..", after the process moved to another directory.
C11_Witness ==
    /\ Done("abs") /\ via = "to_owned" /\ result.ok
    /\ ~src.root /\ HasSeg(src.segs, DotDot)
    /\ cwd # cwdAtCall
    /\ cwdAtCall.path = <<"/", "w">>

\* C12 as stated: for every relative input, the empty path included,
\* make_absolute returns an error only if the current-directory lookup
\* fails, and Ok otherwise.
C12_RelativeNeverRejected ==
    (Done("abs") /\ via = "new" /\ ~src.root) =>
        /\ ~result.ok => ~cwdAtCall.ok
        /\ cwdAtCall.ok => result.ok

\* C12 amended: for every non-empty relative input make_absolute returns an
\* error iff the current-directory lookup fails; the empty path is rejected
\* with InvalidInput whatever the lookup yields.
C12_NonEmptyRelativeNeverRejected ==
    (Done("abs") /\ via = "new" /\ ~src.root) =>
        /\ src.segs # <<>> => (result.ok <=> cwdAtCall.ok)
        /\ (src.segs # <<>> /\ ~result.ok) => result.err = "CurrentDir"
        /\ src.segs = <<>> => (~result.ok /\ result.err = "InvalidInput")

\* C12 witness: a relative input of "." and ".." segments only was accepted.
C12_Witness ==
    /\ Done("abs") /\ via = "new" /\ ~src.root /\ result.ok
    /\ HasSeg(src.segs, Dot) /\ HasSeg(src.segs, DotDot)
    /\ \A i \in 1..Len(src.segs) : src.segs[i] \in {Dot, DotDot}

\* C13: deserializing an AbsPathBuf succeeds iff the string is absolute,
\* deserializing a RelPathBuf succeeds iff the string is relative; a mismatch
\* is an error with no value, and a success holds the string verbatim.
C13_DeserializeRevalidates ==
    ((Done("deabs") \/ Done("derel")) /\ via = "deserialize" /\ wire = NoWire) =>
        /\ result.ok <=> (IF op = "deabs" THEN src.root ELSE ~src.root)
        /\ result.ok => result.path = Render(src)
        /\ ~result.ok => (result.path = <<>> /\ result.err = "custom")

\* C13 witness: a relative string was refused for AbsPathBuf although the
\* current directory could have been read.
C13_Witness ==
    /\ Done("deabs") /\ via = "deserialize" /\ wire = NoWire
    /\ ~src.root /\ src.segs # <<>> /\ cwd.ok
    /\ ~result.ok

\* C14: deserializing a NormPathBuf never fails for the shape of the path:
\* for every string S the result is the value NormPathBuf::new(S) gives, so
\* a string that is not normalized is normalized, not refused.
C14_DeserializeNormalizes ==
    (Done("norm") /\ via = "deserialize" /\ pass = 1 /\ wire = NoWire) =>
        /\ result.ok
        /\ result = NormPathBufNew(Render(src))

\* C14 witness: a string with "." and ".." was deserialized into a path
\* that differs from it.
C14_Witness ==
    /\ Done("norm") /\ via = "deserialize" /\ pass = 1 /\ wire = NoWire
    /\ HasSeg(src.segs, Dot) /\ HasSeg(src.segs, DotDot)
    /\ result.ok /\ result.path # Render(src)

\* C15 as stated: every buffer obtained from its constructor serializes to
\* its plain path string, and deserializing that string succeeds with a
\* value equal to the buffer.
C15_SerdeRoundTrip ==
    /\ pc = "wire" => wire = Ok(result.path)
    /\ (pc = "done" /\ wire # NoWire /\ op \in {"norm", "derel", "deabs"}) =>
          result = Ok(wire.path)

\* C15 amended: every buffer obtained from its constructor whose path is
\* valid UTF-8 serializes to its plain path string, and deserializing that
\* string succeeds with a value equal to the buffer; a buffer whose path is
\* not valid UTF-8 does not serialize.
C15_SerdeRoundTripUtf8 ==
    /\ pc = "wire" =>
          IF ValidUtf8(result.path) THEN wire = Ok(result.path) ELSE ~wire.ok
    /\ (pc = "done" /\ wire # NoWire /\ op \in {"norm", "derel", "deabs"}) =>
          result = Ok(wire.path)

\* C15 witness: a NormPathBuf that keeps a leading ".." came back equal from
\* the round trip.
C15_Witness ==
    /\ Done("norm") /\ pass = 2 /\ wire.ok
    /\ HasSeg(RawSegments(wire.path), DotDot)
    /\ wire.path # Render(src)
    /\ result = Ok(wire.path)

\* The segments of the text s, separators and empty pieces left out.
NonEmptySegs(s) == SelectSeq(RawSegments(s), LAMBDA x : x # <<>>)

\* Names that remain after resolving every ".." of segs against the name
\* before it; a ".." with no name before it stays at the root.
RECURSIVE LexResolve(_, _)
LexResolve(stack, segs) ==
    IF segs = <<>> THEN stack
    ELSE IF Head(segs) = Dot THEN LexResolve(stack, Tail(segs))
    ELSE IF Head(segs) = DotDot
         THEN LexResolve(IF stack = <<>> THEN stack ELSE SubSeq(stack, 1, Len(stack) - 1),
                         Tail(segs))
    ELSE LexResolve(Append(stack, Head(segs)), Tail(segs))

\* The location of p under the sandbox root, ".." resolved, lies inside the
\* root.  An absolute p denotes itself.
InsideSandbox(sandbox, p) ==
    LET root == LexResolve(<<>>, NonEmptySegs(sandbox))
        loc == IF p # <<>> /\ p[1] = Sep
               THEN LexResolve(<<>>, NonEmptySegs(p))
               ELSE LexResolve(<<>>, NonEmptySegs(sandbox) \o NonEmptySegs(p))
    IN Len(root) <= Len(loc) /\ SubSeq(loc, 1, Len(root)) = root

\* Number of leading ".." segments of segs.
LeadingParents(segs) ==
    Cardinality({i \in 1..Len(segs) : \A j \in 1..i : segs[j] = DotDot})

CountSeg(segs, x) == Cardinality({i \in 1..Len(segs) : segs[i] = x})

\* C16: normalization preserves the category: normalize(P) is absolute iff P
\* is absolute.
C16_CategoryPreserved ==
    (Done("norm") /\ pass = 1) => (IsAbsolute(result.path) <=> src.root)

\* C16 witness: a root-anchored input with more ".." than names stayed
\* absolute.
C16_Witness ==
    /\ Done("norm") /\ pass = 1 /\ src.root
    /\ CountSeg(src.segs, DotDot) >= 2
    /\ CountSeg(src.segs, DotDot) > Len(src.segs) - CountSeg(src.segs, DotDot)
    /\ IsAbsolute(result.path)

\* C17: joining any RelPathBuf onto any AbsPath yields an absolute path made
\* of the segments of the absolute operand followed by the segments of the
\* relative operand.
C17_JoinIsAbsolute ==
    Done("join") =>
        /\ result.ok
        /\ result.path # <<>> /\ result.path[1] = Sep
        /\ NonEmptySegs(result.path) = NonEmptySegs(base) \o src.segs

\* C17 witness: a relative path with "." and ".." joined onto /w/x.
C17_Witness ==
    /\ Done("join") /\ base = <<"/", "w", "/", "x">>
    /\ HasSeg(src.segs, Dot) /\ HasSeg(src.segs, DotDot)
    /\ Len(NonEmptySegs(result.path)) = 2 + Len(src.segs)

\* C18: validate_sandbox_escape on a normalized input returns Ok only if the
\* location under the sandbox root, ".." resolved, lies inside the root, and
\* returns Err for every normalized path whose location leaves the root.
C18_SandboxSound ==
    Done("sandbox") => (result.ok => InsideSandbox(base, normalized))

====
